---- MODULE Spec2Model ----
(***************************************************************************)
(* Model of src/src/local/skill_subscriber.py: the Subscriber bridge.       *)
(*                                                                         *)
(* Threads of control                                                      *)
(*   - the main thread runs serve_forever (the accept loop) and, as the    *)
(*     signal handler, shutdown;                                           *)
(*   - ping_thread runs ping (the heartbeat supervisor).                   *)
(*                                                                         *)
(* Time.  The code stores timestamps and compares (now - timestamp) with   *)
(* PING_SECS and 2 * PING_SECS.  The model keeps the differences (ages)    *)
(* themselves: Tick adds TickSecs to every age that is set, and an age     *)
(* saturates at AgeCap, which lies above both thresholds, so every         *)
(* comparison the code makes has the value it has on the timestamps.       *)
(***************************************************************************)
EXTENDS Integers, Sequences, FiniteSets, TLC

(* ------------------------------------------------------------------ *)
(* Constants of the program and bounds of the model                    *)
(* ------------------------------------------------------------------ *)

PING_SECS == 600

\* Seconds added by one step of the clock.
TickSecs == 300

\* Longest subscription list the pub/sub service returns.
MaxSubs == 2

\* An age is NONE while the timestamp is unset (False / None in the code).
NONE == -1

AgeCap == 2 * PING_SECS + TickSecs

Ages == {a \in 0..AgeCap : a = AgeCap \/ a % TickSecs = 0}

\* A key that a dict does not carry.
ABSENT == "<absent>"

\* The skill registry handed to the constructor: handler name -> skill.
skills == {"lights", "tv"}

HandlerNames == skills \cup {"nosuch"}

Commands == {"ping", "turnOn"}

\* The decoded Message of a Notification: every key may be missing.
Notifications ==
    [command      : Commands \cup {ABSENT},
     handler_name : HandlerNames \cup {ABSENT},
     room         : {"den", ABSENT},
     data         : {"{}", ABSENT}]

NoNotification ==
    [command |-> ABSENT, handler_name |-> ABSENT, room |-> ABSENT, data |-> ABSENT]

\* The Message field of an envelope: JSON text of a notification, the empty
\* string, text that is not JSON, or no Message key at all.
Messages ==
    {[form |-> "json", n |-> n] : n \in Notifications}
        \cup {[form |-> f, n |-> NoNotification] : f \in {"empty", "notjson", ABSENT}}

NoMessage == [form |-> ABSENT, n |-> NoNotification]

\* The bodies POSTed to the listener.  Type "<notjson>" stands for a body that
\* json.loads rejects, Type ABSENT for a JSON object without a Type key.
Requests ==
    {[Type |-> "SubscriptionConfirmation", Token |-> t, Message |-> NoMessage] :
        t \in {"tok", ABSENT}}
    \cup {[Type |-> "Notification", Token |-> ABSENT, Message |-> m] : m \in Messages}
    \cup {[Type |-> t, Token |-> ABSENT, Message |-> NoMessage] :
        t \in {"UnsubscribeConfirmation", ABSENT, "<notjson>"}}

NoRequest == [Type |-> "<none>", Token |-> ABSENT, Message |-> NoMessage]

\* The bridge's own topic and callback URL, and the subscriptions the pub/sub
\* service may list.  An identifier is kept as its first 12 characters (head)
\* and the rest, which is all that subscription_arn[:12] looks at.
topic_arn == "topic"
endpoint_url == "http://me"

SnsArn(id) == [head |-> "arn:aws:sns:", rest |-> id]
PendingArn == [head |-> "PendingConfi", rest |-> "rmation"]
NoArn == [head |-> "<none>", rest |-> ""]

Subscriptions ==
    { [TopicArn |-> topic_arn, Endpoint |-> endpoint_url, SubscriptionArn |-> SnsArn("mine")],
      [TopicArn |-> topic_arn, Endpoint |-> endpoint_url, SubscriptionArn |-> PendingArn],
      [TopicArn |-> topic_arn, Endpoint |-> "http://other", SubscriptionArn |-> SnsArn("other")],
      [TopicArn |-> "topic2", Endpoint |-> endpoint_url, SubscriptionArn |-> SnsArn("topic2")] }

Listings == UNION {[1..k -> Subscriptions] : k \in 0..MaxSubs}

VARIABLES
    manual_port_forward,  \* self.manual_port_forward
    mapped,               \* the router forwards the port to the bridge
    subState,             \* the subscription as the pub/sub calls have left it
    stopped,              \* self.stopped
    last_ping_sent,       \* age of self.last_ping_sent, NONE while False
    last_ping_received,   \* age of self.last_ping_received, NONE while None
    pingPc,               \* ping_thread: where it is in ping()
    cyclePubs,            \* pings published by the current (else the last) cycle
    pubsAfterStop,        \* pings published while stopped was already set
    threadStarts,         \* successful ping_thread.start() calls
    confirmTransitions,   \* PendingConfirmation -> Confirmed transitions
    mainPc,               \* main thread: where it is in serve_forever
    request,              \* the request of this iteration of the accept loop
    effect,               \* what handling that request did
    shPc,                 \* shutdown(): where the signal handler is
    shTrace,              \* the steps shutdown() has performed, in order
    topicSubs,            \* the topic's subscriptions while unsubscribe() runs
    subscription_arn,     \* subscription_arn in unsubscribe()
    unsubscribed,         \* SubscriptionArns passed to sns_client.unsubscribe
    raised,               \* what shutdown() raised into its caller
    lastSignal,           \* what the last call of shutdown() did: "ran", "noop"
    exitStatus,           \* status given to sys.exit, NONE while not called
    proc                  \* "running", or "restarted" once os.execl replaced it

vars ==
    <<manual_port_forward, mapped, subState, stopped, last_ping_sent,
      last_ping_received, pingPc, cyclePubs, threadStarts, confirmTransitions,
      mainPc, request, effect, shPc, shTrace, topicSubs, subscription_arn,
      unsubscribed, raised, exitStatus, proc, pubsAfterStop, lastSignal>>

listenerVars == <<mainPc, request, effect>>
clockVars == <<last_ping_sent, last_ping_received>>
pingVars == <<pingPc, cyclePubs, pubsAfterStop>>
shutdownVars ==
    <<shPc, shTrace, topicSubs, subscription_arn, unsubscribed, raised, lastSignal>>

(* ------------------------------------------------------------------ *)
(* The clock                                                           *)
(* ------------------------------------------------------------------ *)

\* (datetime.now() - t).total_seconds() one clock step later.
AgeAfterTick(a) ==
    IF a = NONE THEN NONE
    ELSE IF a + TickSecs > AgeCap THEN AgeCap ELSE a + TickSecs

\* PingDue with the period reached, not exceeded.
PingDueInclusive(sent) == sent = NONE \/ sent >= PING_SECS

\* Line 102: no ping was sent yet, or the last one is older than PING_SECS.
PingDue(sent) == sent = NONE \/ sent > PING_SECS

\* ChannelDead with the threshold of one interval instead of two.
ChannelDeadOneInterval(received) == received # NONE /\ received > PING_SECS

\* Lines 111-112: an ack was received once and it is older than 2 * PING_SECS.
ChannelDead(received) == received # NONE /\ received > PING_SECS * 2

(* ------------------------------------------------------------------ *)
(* dispatch_notification                                               *)
(* ------------------------------------------------------------------ *)

DispatchResult(received, lookup, invoked, exc) ==
    [received |-> received, lookup |-> lookup, invoked |-> invoked, exc |-> exc]

\* skill.handle_command(room, command, data) as the skill sees it.
Invocation(skill, room, command, data) ==
    [skill |-> skill, room |-> room, command |-> command, data |-> data]

\* SkillRouting with room and command passed in each other's place.
SkillRoutingSwapped(n, handlerRaises) ==
    IF n.handler_name = ABSENT THEN DispatchResult(FALSE, FALSE, <<>>, "KeyError")
    ELSE IF n.handler_name \notin skills
        THEN DispatchResult(FALSE, TRUE, <<>>, "AttributeError")
    ELSE IF n.room = ABSENT \/ n.command = ABSENT \/ n.data = ABSENT
        THEN DispatchResult(FALSE, TRUE, <<>>, "KeyError")
    ELSE DispatchResult(FALSE, TRUE,
                        <<Invocation(n.handler_name, n.command, n.room, n.data)>>,
                        IF handlerRaises THEN "SkillError" ELSE "none")

\* Lines 232-233, in evaluation order: the subscript raises KeyError on a
\* missing key, skills.get gives None for an unregistered name and
\* None.handle_command raises AttributeError, the arguments are evaluated
\* before the call, and the skill itself may raise.
SkillRouting(n, handlerRaises) ==
    IF n.handler_name = ABSENT THEN DispatchResult(FALSE, FALSE, <<>>, "KeyError")
    ELSE IF n.handler_name \notin skills
        THEN DispatchResult(FALSE, TRUE, <<>>, "AttributeError")
    ELSE IF n.room = ABSENT \/ n.command = ABSENT \/ n.data = ABSENT
        THEN DispatchResult(FALSE, TRUE, <<>>, "KeyError")
    ELSE DispatchResult(FALSE, TRUE,
                        <<Invocation(n.handler_name, n.room, n.command, n.data)>>,
                        IF handlerRaises THEN "SkillError" ELSE "none")

\* DispatchBody without the return of line 231: a ping is recorded and then
\* routed to a skill like any command.
DispatchBodyNoReturn(n, handlerRaises) ==
    IF n.command = ABSENT THEN DispatchResult(FALSE, FALSE, <<>>, "KeyError")
    ELSE IF n.command = "ping"
        THEN [SkillRouting(n, handlerRaises) EXCEPT !.received = TRUE]
    ELSE SkillRouting(n, handlerRaises)

\* The body of the try block, lines 228-233: a notification without a
\* command raises KeyError, a ping is recorded and returns, anything else
\* goes to the skill.
DispatchBody(n, handlerRaises) ==
    IF n.command = ABSENT THEN DispatchResult(FALSE, FALSE, <<>>, "KeyError")
    ELSE IF n.command = "ping" THEN DispatchResult(TRUE, FALSE, <<>>, "none")
    ELSE SkillRouting(n, handlerRaises)

\* dispatch_notification without the try/except: what the body raises leaves
\* the dispatcher.
dispatch_notification_uncaught(n, handlerRaises) ==
    LET r == DispatchBody(n, handlerRaises)
    IN  [received |-> r.received, lookup |-> r.lookup, invoked |-> r.invoked,
         caught |-> FALSE, raisedPast |-> r.exc]

\* Lines 227-235: the bare except logs whatever the body raised; nothing
\* leaves the dispatcher.
dispatch_notification(n, handlerRaises) ==
    LET r == DispatchBody(n, handlerRaises)
    IN  [received |-> r.received, lookup |-> r.lookup, invoked |-> r.invoked,
         caught |-> r.exc # "none", raisedPast |-> "none"]

(* ------------------------------------------------------------------ *)
(* confirm_subscription                                                *)
(* ------------------------------------------------------------------ *)

\* confirm_subscription starting a fresh thread on every confirmation.
confirm_subscription_restarts(confirmOk, threadStarted) ==
    IF ~confirmOk THEN [confirm |-> "failed", start |-> "none", exit |-> 1]
    ELSE [confirm |-> "ok", start |-> "started", exit |-> NONE]

\* confirm_subscription starting the thread before the confirm call.
confirm_subscription_starts_first(confirmOk, threadStarted) ==
    IF threadStarted THEN [confirm |-> "none", start |-> "RuntimeError", exit |-> 1]
    ELSE IF confirmOk THEN [confirm |-> "ok", start |-> "started", exit |-> NONE]
    ELSE [confirm |-> "failed", start |-> "started", exit |-> 1]

\* Lines 184-196.  confirmOk: sns_client.confirm_subscription returned.
\* threadStarted: ping_thread.start() was called before; a second start() of
\* a threading.Thread raises RuntimeError, which the bare except turns into
\* sys.exit(1) like a failed confirm call.
confirm_subscription(confirmOk, threadStarted) ==
    IF ~confirmOk THEN [confirm |-> "failed", start |-> "none", exit |-> 1]
    ELSE IF threadStarted THEN [confirm |-> "ok", start |-> "RuntimeError", exit |-> 1]
    ELSE [confirm |-> "ok", start |-> "started", exit |-> NONE]

(* ------------------------------------------------------------------ *)
(* SNSRequestHandler.do_POST                                           *)
(* ------------------------------------------------------------------ *)

NoEffect ==
    [responded |-> FALSE, confirm |-> "none", start |-> "none", dispatched |-> FALSE,
     received |-> FALSE, lookup |-> FALSE, invoked |-> <<>>, caught |-> FALSE,
     raisedPast |-> "none", escaped |-> "none", exit |-> NONE, events |-> <<>>]

\* Lines 57-59: the 200 response, written to the unbuffered wfile.
SendResponse(e) ==
    [e EXCEPT !.responded = TRUE, !.events = Append(@, "respond200")]

\* ParseError as a BaseException that handle_request does not contain.
ParseErrorFatal == "SystemExit"

\* What the parsing of lines 60-73 raises on a malformed body: ValueError
\* from json.loads, KeyError from a subscript; each is an Exception.
ParseError == "Exception"

\* HasMessage without the truth test of line 71.
HasMessageAlways(m) == TRUE

\* Line 71: `and data['Message']`, false for the empty string.
HasMessage(m) == m.form # "empty"

\* Lines 60-74, after the response: parse the envelope and hand it on.
\* escaped is what leaves do_POST: ParseError for the errors of parsing,
\* "SystemExit" for sys.exit.
ProcessBody(req, e, confirmOk, threadStarted, handlerRaises) ==
    IF req.Type \in {"<notjson>", ABSENT} THEN [e EXCEPT !.escaped = ParseError]
    ELSE IF req.Type = "SubscriptionConfirmation" THEN
        IF req.Token = ABSENT THEN [e EXCEPT !.escaped = ParseError]
        ELSE LET c == confirm_subscription(confirmOk, threadStarted)
             IN  [e EXCEPT !.confirm = c.confirm, !.start = c.start,
                           !.exit = c.exit,
                           !.events = Append(@, "confirm_subscription"),
                           !.escaped = IF c.exit = NONE THEN "none" ELSE "SystemExit"]
    ELSE IF req.Type = "Notification" THEN
        IF req.Message.form = ABSENT THEN [e EXCEPT !.escaped = ParseError]
        ELSE IF ~HasMessage(req.Message) THEN e
        ELSE IF req.Message.form # "json" THEN [e EXCEPT !.escaped = ParseError]
        ELSE LET d == dispatch_notification(req.Message.n, handlerRaises)
             IN  [e EXCEPT !.dispatched = TRUE, !.received = d.received,
                           !.lookup = d.lookup, !.invoked = d.invoked,
                           !.caught = d.caught, !.raisedPast = d.raisedPast,
                           !.events = Append(@, "dispatch_notification"),
                           !.escaped = IF d.raisedPast = "none" THEN "none"
                                       ELSE "Exception"]
    ELSE e

\* do_POST answering only once the body has been processed without error.
do_POST_responds_last(req, confirmOk, threadStarted, handlerRaises) ==
    LET e == ProcessBody(req, NoEffect, confirmOk, threadStarted, handlerRaises)
    IN  IF e.escaped = "none" THEN SendResponse(e) ELSE e

\* Lines 56-74: the 200 response is written first, then the body is read.
do_POST(req, confirmOk, threadStarted, handlerRaises) ==
    ProcessBody(req, SendResponse(NoEffect), confirmOk, threadStarted, handlerRaises)

(* ------------------------------------------------------------------ *)
(* unsubscribe: the lookup                                             *)
(* ------------------------------------------------------------------ *)

\* Line 215.
Matches(sub) == sub.TopicArn = topic_arn /\ sub.Endpoint = endpoint_url

\* Lines 212-217: the SubscriptionArn of the first listed subscription that
\* matches, NoArn (None) when none does.
RECURSIVE FirstMatch(_)
FirstMatch(subs) ==
    IF subs = <<>> THEN NoArn
    ELSE IF Matches(Head(subs)) THEN Head(subs).SubscriptionArn
    ELSE FirstMatch(Tail(subs))

\* Removable without the test of the identifier's prefix.
RemovableAnyMatch(arn) == arn # NoArn

\* Line 219.
Removable(arn) == arn # NoArn /\ arn.head = "arn:aws:sns:"

(* ------------------------------------------------------------------ *)
(* The state after Subscriber.__init__ returned                        *)
(* ------------------------------------------------------------------ *)

\* Lines 28-87 and subscribe(), lines 147-177, all of which succeeded (each
\* failure there ends the process before the object exists): with no PORT
\* the bridge holds a port mapping, and the subscription awaits confirmation.
Init ==
    /\ manual_port_forward \in BOOLEAN
    /\ mapped = ~manual_port_forward
    /\ subState = "PendingConfirmation"
    /\ stopped = FALSE
    /\ last_ping_sent = NONE
    /\ last_ping_received = NONE
    /\ pingPc = "unstarted"
    /\ cyclePubs = 0
    /\ pubsAfterStop = 0
    /\ threadStarts = 0
    /\ confirmTransitions = 0
    /\ mainPc = "looptest"
    /\ request = NoRequest
    /\ effect = NoEffect
    /\ shPc = "idle"
    /\ shTrace = <<>>
    /\ topicSubs = <<>>
    /\ subscription_arn = NoArn
    /\ unsubscribed = <<>>
    /\ raised = "none"
    /\ lastSignal = "none"
    /\ exitStatus = NONE
    /\ proc = "running"

\* datetime.now() moves on by TickSecs.
Tick ==
    /\ proc = "running"
    /\ last_ping_sent' = AgeAfterTick(last_ping_sent)
    /\ last_ping_received' = AgeAfterTick(last_ping_received)
    /\ UNCHANGED <<manual_port_forward, mapped, subState, stopped, pingVars,
                   threadStarts, confirmTransitions, listenerVars, shutdownVars,
                   exitStatus, proc>>

(* ------------------------------------------------------------------ *)
(* serve_forever: the accept loop, on the main thread                  *)
(* ------------------------------------------------------------------ *)

\* Line 91: the loop test.
ServeLoopTest ==
    /\ proc = "running"
    /\ mainPc = "looptest"
    /\ shPc = "idle"
    /\ mainPc' = IF stopped THEN "returned" ELSE "waiting"
    /\ request' = NoRequest
    /\ effect' = NoEffect
    /\ UNCHANGED <<manual_port_forward, mapped, subState, stopped, clockVars,
                   pingVars, threadStarts, confirmTransitions, shutdownVars,
                   exitStatus, proc>>

\* Line 93: handle_request serves one POST with do_POST, and with it
\* confirm_subscription or dispatch_notification.  An Exception that leaves
\* do_POST is reported by the server (socketserver's handle_error) and the
\* loop goes on; SystemExit passes through handle_request into the bare
\* except of lines 94-95, which logs it and lets serve_forever return.
HandleRequest ==
    /\ proc = "running"
    /\ mainPc = "waiting"
    /\ shPc = "idle"
    /\ \E req \in Requests, confirmOk \in BOOLEAN, handlerRaises \in BOOLEAN :
        LET e == do_POST(req, confirmOk, pingPc # "unstarted", handlerRaises)
        IN  /\ request' = req
            /\ effect' = e
            /\ subState' = IF e.confirm = "ok" THEN "Confirmed" ELSE subState
            /\ confirmTransitions' =
                    IF e.confirm = "ok" /\ subState = "PendingConfirmation"
                    THEN confirmTransitions + 1 ELSE confirmTransitions
            /\ pingPc' = IF e.start = "started" THEN "test" ELSE pingPc
            /\ threadStarts' =
                    IF e.start = "started" THEN threadStarts + 1 ELSE threadStarts
            /\ last_ping_received' = IF e.received THEN 0 ELSE last_ping_received
            /\ exitStatus' = IF e.exit # NONE THEN e.exit ELSE exitStatus
            /\ mainPc' = IF e.escaped = "SystemExit" THEN "returned" ELSE "looptest"
    /\ UNCHANGED <<manual_port_forward, mapped, stopped, last_ping_sent, cyclePubs,
                   shutdownVars, proc, pubsAfterStop>>

(* ------------------------------------------------------------------ *)
(* ping: the heartbeat supervisor, on ping_thread                      *)
(* ------------------------------------------------------------------ *)

\* LoopContinues without the test of the flag.
LoopContinuesAlways(flag) == TRUE

\* Line 101: `while not self.stopped`.
LoopContinues(flag) == ~flag

\* Lines 101-102 and 119: the loop test, then whether a ping is due.
PingTest ==
    /\ proc = "running"
    /\ pingPc = "test"
    /\ IF ~LoopContinues(stopped) THEN pingPc' = "finished" /\ UNCHANGED cyclePubs
       ELSE IF PingDue(last_ping_sent) THEN pingPc' = "list" /\ cyclePubs' = 0
       ELSE pingPc' = "sleep" /\ UNCHANGED cyclePubs
    /\ UNCHANGED <<manual_port_forward, mapped, subState, stopped, clockVars,
                   threadStarts, confirmTransitions, listenerVars, shutdownVars,
                   exitStatus, proc, pubsAfterStop>>

\* Line 120: time.sleep(1).
PingSleep ==
    /\ proc = "running"
    /\ pingPc = "sleep"
    /\ pingPc' = "test"
    /\ UNCHANGED <<manual_port_forward, mapped, subState, stopped, clockVars,
                   cyclePubs, threadStarts, confirmTransitions, listenerVars,
                   shutdownVars, exitStatus, proc, pubsAfterStop>>

\* Lines 103-109: list the topic's subscriptions and log their number.  A
\* failing call raises in ping(), which has no handler: the thread ends.
PingList ==
    /\ proc = "running"
    /\ pingPc = "list"
    /\ \E ok \in BOOLEAN : pingPc' = IF ok THEN "check" ELSE "died"
    /\ UNCHANGED <<manual_port_forward, mapped, subState, stopped, clockVars,
                   cyclePubs, threadStarts, confirmTransitions, listenerVars,
                   shutdownVars, exitStatus, proc, pubsAfterStop>>

\* Lines 111-114, with restart(), lines 122-124: os.execl replaces the
\* process image, so nothing of this process runs after it.
PingCheck ==
    /\ proc = "running"
    /\ pingPc = "check"
    /\ IF ChannelDead(last_ping_received)
       THEN proc' = "restarted" /\ UNCHANGED pingPc
       ELSE pingPc' = "publish" /\ UNCHANGED proc
    /\ UNCHANGED <<manual_port_forward, mapped, subState, stopped, clockVars,
                   cyclePubs, threadStarts, confirmTransitions, listenerVars,
                   shutdownVars, exitStatus, pubsAfterStop>>

\* Lines 116-118: publish the ping and record the time; a failing publish
\* raises before line 118 and ends the thread.
PingPublish ==
    /\ proc = "running"
    /\ pingPc = "publish"
    /\ \E ok \in BOOLEAN :
        IF ok THEN /\ cyclePubs' = cyclePubs + 1
                   /\ pubsAfterStop' = IF stopped THEN pubsAfterStop + 1
                                       ELSE pubsAfterStop
                   /\ last_ping_sent' = 0
                   /\ pingPc' = "test"
        ELSE /\ pingPc' = "died"
             /\ UNCHANGED <<cyclePubs, pubsAfterStop, last_ping_sent>>
    /\ UNCHANGED <<manual_port_forward, mapped, subState, stopped,
                   last_ping_received, threadStarts, confirmTransitions,
                   listenerVars, shutdownVars, exitStatus, proc>>

PingNext == PingTest \/ PingSleep \/ PingList \/ PingCheck \/ PingPublish

(* ------------------------------------------------------------------ *)
(* shutdown and unsubscribe: the signal handler, on the main thread    *)
(* ------------------------------------------------------------------ *)

\* An exception that leaves unsubscribe() leaves shutdown() at line 133, so
\* lines 134-135 are skipped, and arrives in serve_forever, which the signal
\* interrupted: lines 94-95 log it and serve_forever returns.
ShutdownRaises(what, step) ==
    /\ raised' = what
    /\ shTrace' = Append(shTrace, step)
    /\ shPc' = "done"
    /\ mainPc' = "returned"

\* AlreadyStopped without the guard of line 130.
AlreadyStoppedNever(flag) == FALSE

\* Line 130: `if self.stopped: return`.
AlreadyStopped(flag) == flag

\* Lines 130-133: the signal arrives while the accept loop waits for a
\* request, or after an earlier shutdown() has ended; past the guard, set the
\* flag and enter unsubscribe().  topicSubs is what the pub/sub service holds
\* for the topic during this call of unsubscribe().
ShutdownBegin ==
    /\ proc = "running"
    /\ (mainPc = "waiting" /\ shPc = "idle") \/ shPc = "done"
    /\ ~AlreadyStopped(stopped)
    /\ stopped' = TRUE
    /\ shPc' = "release"
    /\ shTrace' = <<"set_stop">>
    /\ topicSubs' \in Listings
    /\ lastSignal' = "ran"
    /\ UNCHANGED <<manual_port_forward, mapped, subState, clockVars, pingVars,
                   threadStarts, confirmTransitions, listenerVars,
                   subscription_arn, unsubscribed, raised, exitStatus, proc>>

\* Line 130: a signal that finds the flag set returns at once, wherever the
\* main thread is (inside the first shutdown() or after it).
ShutdownNoop ==
    /\ proc = "running"
    /\ AlreadyStopped(stopped)
    /\ lastSignal' = "noop"
    /\ UNCHANGED <<manual_port_forward, mapped, subState, stopped, clockVars,
                   pingVars, threadStarts, confirmTransitions, listenerVars,
                   shPc, shTrace, topicSubs, subscription_arn, unsubscribed,
                   raised, exitStatus, proc>>

\* Lines 203-210: give the port mapping back when the bridge made it; a
\* false result raises RuntimeError.
UnsubRelease ==
    /\ proc = "running"
    /\ shPc = "release"
    /\ IF manual_port_forward
       THEN /\ shPc' = "lookup"
            /\ UNCHANGED <<mapped, shTrace, raised, mainPc>>
       ELSE \E result \in BOOLEAN :
            IF result
            THEN /\ mapped' = FALSE
                 /\ shTrace' = Append(shTrace, "release_mapping")
                 /\ shPc' = "lookup"
                 /\ UNCHANGED <<raised, mainPc>>
            ELSE /\ ShutdownRaises("RuntimeError", "release_failed")
                 /\ UNCHANGED mapped
    /\ UNCHANGED <<manual_port_forward, subState, stopped, clockVars, pingVars,
                   threadStarts, confirmTransitions, request, effect, topicSubs,
                   subscription_arn, unsubscribed, exitStatus, proc, lastSignal>>

\* Lines 212-217: list the topic's subscriptions and keep the first match.
UnsubLookup ==
    /\ proc = "running"
    /\ shPc = "lookup"
    /\ \E ok \in BOOLEAN :
        IF ok
        THEN /\ subscription_arn' = FirstMatch(topicSubs)
             /\ shTrace' = Append(shTrace, "lookup")
             /\ shPc' = "remove"
             /\ UNCHANGED <<raised, mainPc>>
        ELSE /\ ShutdownRaises("ClientError", "lookup_failed")
             /\ UNCHANGED subscription_arn
    /\ UNCHANGED <<manual_port_forward, mapped, subState, stopped, clockVars,
                   pingVars, threadStarts, confirmTransitions, request, effect,
                   topicSubs, unsubscribed, exitStatus, proc, lastSignal>>

\* Lines 219-220: remove the subscription found, if its identifier is an ARN.
UnsubRemove ==
    /\ proc = "running"
    /\ shPc = "remove"
    /\ IF Removable(subscription_arn)
       THEN \E ok \in BOOLEAN :
            IF ok
            THEN /\ unsubscribed' = Append(unsubscribed, subscription_arn)
                 /\ subState' = "Unsubscribed"
                 /\ shTrace' = Append(shTrace, "remove_subscription")
                 /\ shPc' = "exit"
                 /\ UNCHANGED <<raised, mainPc>>
            ELSE /\ ShutdownRaises("ClientError", "remove_failed")
                 /\ UNCHANGED <<unsubscribed, subState>>
       ELSE /\ shPc' = "exit"
            /\ UNCHANGED <<unsubscribed, subState, shTrace, raised, mainPc>>
    /\ UNCHANGED <<manual_port_forward, mapped, stopped, clockVars, pingVars,
                   threadStarts, confirmTransitions, request, effect, topicSubs,
                   subscription_arn, exitStatus, proc, lastSignal>>

\* Line 221: sys.exit(0) raises SystemExit out of unsubscribe().
UnsubExit ==
    /\ proc = "running"
    /\ shPc = "exit"
    /\ exitStatus' = 0
    /\ ShutdownRaises("SystemExit", "exit")
    /\ UNCHANGED <<manual_port_forward, mapped, subState, stopped, clockVars,
                   pingVars, threadStarts, confirmTransitions, request, effect,
                   topicSubs, subscription_arn, unsubscribed, proc, lastSignal>>

\* Lines 134-135, which follow the call of unsubscribe() in shutdown():
\* server.shutdown(), then ping_thread.join(5).  unsubscribe() has no normal
\* return (it ends in the raise of line 209 or the sys.exit of line 221, or
\* in the exception of a pub/sub call), so no step of the model sets shPc
\* to "unsubscribed" and this is no disjunct of Next.
ShutdownStopAndJoin ==
    /\ proc = "running"
    /\ shPc = "unsubscribed"
    /\ shTrace' = shTrace \o <<"stop_acceptor", "join_ping_thread">>
    /\ shPc' = "done"
    /\ UNCHANGED <<manual_port_forward, mapped, subState, stopped, clockVars,
                   pingVars, threadStarts, confirmTransitions, listenerVars,
                   topicSubs, subscription_arn, unsubscribed, raised, exitStatus,
                   proc, lastSignal>>

ShutdownNext ==
    ShutdownBegin \/ ShutdownNoop \/ UnsubRelease \/ UnsubLookup \/ UnsubRemove
        \/ UnsubExit

Next == Tick \/ ServeLoopTest \/ HandleRequest \/ PingNext \/ ShutdownNext

Spec == Init /\ [][Next]_vars

\* The operating system schedules ping_thread and the clock moves on.
FairSpec == Spec /\ WF_vars(Tick) /\ WF_vars(PingNext)

(* ------------------------------------------------------------------ *)
(* Properties                                                          *)
(* ------------------------------------------------------------------ *)

\* The request of this iteration is a Notification whose Message decodes.
IsNotification == request.Type = "Notification" /\ request.Message.form = "json"

\* This step is HandleRequest: the accept loop takes a request.
HandlesRequest == request = NoRequest /\ request' # NoRequest

\* Position of a step in the trace of shutdown(), 0 when it did not happen.
StepAt(step) ==
    IF \E i \in DOMAIN shTrace : shTrace[i] = step
    THEN CHOOSE i \in DOMAIN shTrace : shTrace[i] = step
    ELSE 0

\* C1: whatever confirmation callbacks are delivered, duplicates included,
\* the subscription goes from PendingConfirmation to Confirmed at most once
\* and ping_thread is started at most once; once a confirmation whose
\* confirm call succeeded has been handled, both have happened exactly once.
C1_ConfirmOnce ==
    /\ confirmTransitions <= 1
    /\ threadStarts <= 1
    /\ effect.confirm = "ok" =>
        confirmTransitions = 1 /\ threadStarts = 1 /\ subState = "Confirmed"

\* A duplicate of a confirmation has been handled: the confirm call succeeded
\* again and the thread, started by the first one, was not started again.
C1_Witness ==
    /\ effect.confirm = "ok"
    /\ effect.start = "RuntimeError"
    /\ confirmTransitions = 1
    /\ threadStarts = 1

\* C2 as stated: if a ping has been sent and from some point on no ack is
\* delivered (last_ping_received is never again fresh), StopFlag stays false
\* and no pub/sub call of the supervisor fails, then the process is
\* eventually restarted.
C2_Original ==
    ( /\ <>(last_ping_sent # NONE)
      /\ <>[](last_ping_received # 0)
      /\ [](~stopped)
      /\ [](pingPc # "died") )
    => <>(proc = "restarted")

\* C3: in a cycle entered with last_ping_sent set, the check of lines 111-114
\* restarts the process, with no ping published by the cycle, when the last
\* ack is older than 2 * PING_SECS; when the last ack is at most that old it
\* does not restart and goes on to publish; and a publish that returns has
\* published exactly one ping in the cycle and set last_ping_sent to now.
C3_SupervisorCycle ==
    [][ /\ ( /\ pingPc = "check"
             /\ (pingPc' # "check" \/ proc' # proc)
             /\ last_ping_sent # NONE
             /\ last_ping_received # NONE
             /\ last_ping_received > 2 * PING_SECS )
           => (proc' = "restarted" /\ cyclePubs = 0 /\ cyclePubs' = 0)
        /\ ( /\ pingPc = "check"
             /\ (pingPc' # "check" \/ proc' # proc)
             /\ last_ping_sent # NONE
             /\ last_ping_received # NONE
             /\ last_ping_received <= 2 * PING_SECS )
           => (proc' = "running" /\ pingPc' = "publish" /\ cyclePubs' = 0)
        /\ ( /\ pingPc = "publish"
             /\ pingPc' = "test" )
           => (cyclePubs' = 1 /\ last_ping_sent' = 0 /\ proc' = "running")
      ]_vars

\* A cycle entered after an earlier ping found the last ack too old and
\* restarted the process without publishing.
C3_Witness ==
    /\ proc = "restarted"
    /\ last_ping_sent # NONE
    /\ last_ping_received > 2 * PING_SECS
    /\ cyclePubs = 0

\* C4 as stated, for a shutdown in which no call failed: once it has ended
\* it has set StopFlag, run unsubscribe (release, then lookup), then stopped
\* the acceptor and then joined the ping thread.
C4_Original ==
    (shPc = "done" /\ raised \notin {"RuntimeError", "ClientError"}) =>
        /\ StepAt("set_stop") = 1
        /\ StepAt("lookup") > StepAt("release_mapping")
        /\ StepAt("stop_acceptor") > 1
        /\ StepAt("join_ping_thread") > StepAt("stop_acceptor")

\* C5 as stated: when the release of the port mapping failed, unsubscribe
\* still looked the subscription up and shutdown still came to its exit.
C5_Original ==
    (shPc = "done" /\ StepAt("release_failed") > 0) =>
        /\ StepAt("lookup") > StepAt("release_failed")
        /\ StepAt("exit") > StepAt("lookup")

\* C6: ping_thread has been started only if a confirm call succeeded before
\* (the subscription is, or has been, Confirmed), and the start itself
\* happens only in a confirmation whose confirm call succeeded.
C6_ThreadAfterConfirm ==
    /\ (pingPc # "unstarted" \/ threadStarts > 0) =>
        (confirmTransitions = 1 /\ subState \in {"Confirmed", "Unsubscribed"})
    /\ effect.start = "started" => effect.confirm = "ok"

\* The supervisor is inside a cycle and the subscription is confirmed.
C6_Witness == pingPc = "publish" /\ subState = "Confirmed" /\ threadStarts = 1

\* C7: handling a notification whose command is "ping" sets
\* last_ping_received to now, looks up and invokes no skill, and leaves
\* last_ping_sent and stopped as they were, whatever else it carries.
C7_HeartbeatAck ==
    [][ ( /\ HandlesRequest
          /\ request'.Type = "Notification"
          /\ request'.Message.form = "json"
          /\ request'.Message.n.command = "ping" )
        => ( /\ last_ping_received' = 0
             /\ effect'.received
             /\ ~effect'.lookup
             /\ effect'.invoked = <<>>
             /\ last_ping_sent' = last_ping_sent
             /\ stopped' = stopped )
      ]_vars

\* A ping that also names a registered skill, a room and data was handled
\* after the supervisor had sent a ping.
C7_Witness ==
    /\ IsNotification
    /\ request.Message.n =
        [command |-> "ping", handler_name |-> "lights", room |-> "den", data |-> "{}"]
    /\ last_ping_received = 0
    /\ last_ping_sent # NONE
    /\ last_ping_sent > 0

\* C8: a notification whose handler_name is not registered, or whose skill
\* raised, leaves the dispatcher without an exception, calls no sys.exit,
\* and the accept loop goes on to wait for the next request.
C8_DispatchContained ==
    /\ []( ( /\ IsNotification
             /\ (request.Message.n.handler_name \notin skills \/ effect.caught) )
           => ( /\ effect.dispatched
                /\ effect.raisedPast = "none"
                /\ effect.escaped = "none"
                /\ effect.exit = NONE
                /\ mainPc = "looptest" ) )
    /\ [][ ( /\ IsNotification
             /\ effect.dispatched
             /\ mainPc = "looptest"
             /\ mainPc' # "looptest" )
           => mainPc' = "waiting" ]_vars

\* A command for a registered skill was routed to it and the skill raised.
C8_Witness ==
    /\ IsNotification
    /\ request.Message.n.handler_name = "tv"
    /\ Len(effect.invoked) = 1
    /\ effect.caught
    /\ mainPc = "looptest"

\* C9 as stated: every notification that is not a heartbeat and whose
\* handler_name is registered has that skill invoked exactly once with the
\* notification's room, command and data, and no other skill.
C9_Original ==
    ( /\ IsNotification
      /\ request.Message.n.command # "ping"
      /\ request.Message.n.handler_name \in skills )
    => effect.invoked =
        << Invocation(request.Message.n.handler_name, request.Message.n.room,
                      request.Message.n.command, request.Message.n.data) >>

\* C9, amended: the same for a notification that carries the command, room
\* and data keys.
C9_Amended ==
    ( /\ IsNotification
      /\ request.Message.n.command \notin {"ping", ABSENT}
      /\ request.Message.n.room # ABSENT
      /\ request.Message.n.data # ABSENT
      /\ request.Message.n.handler_name \in skills )
    => effect.invoked =
        << Invocation(request.Message.n.handler_name, request.Message.n.room,
                      request.Message.n.command, request.Message.n.data) >>

\* The scenario of the specification: turnOn for lights in the den.
C9_Witness ==
    /\ IsNotification
    /\ request.Message.n =
        [command |-> "turnOn", handler_name |-> "lights", room |-> "den", data |-> "{}"]
    /\ effect.invoked = << Invocation("lights", "den", "turnOn", "{}") >>

\* C10 as stated, for the runs in which the pub/sub calls return: when no
\* subscription of the topic matches, unsubscribe() calls no pub/sub
\* unsubscribe, raises no error, has released the port mapping the bridge
\* owned and exits with status 0.
C10_Original ==
    ( /\ shPc = "done"
      /\ raised # "ClientError"
      /\ FirstMatch(topicSubs) = NoArn )
    => ( /\ unsubscribed = <<>>
         /\ raised = "SystemExit"
         /\ exitStatus = 0
         /\ ~mapped )

\* C11: for every POST handled, the 200 response is the first thing done,
\* before confirm_subscription or dispatch_notification is called, and it is
\* sent whatever that processing leads to.
C11_ResponseFirst ==
    request # NoRequest =>
        /\ effect.responded
        /\ Len(effect.events) >= 1
        /\ effect.events[1] = "respond200"
        /\ \A i \in 2..Len(effect.events) : effect.events[i] # "respond200"

\* A confirmation whose confirm call failed was answered 200 before.
C11_Witness ==
    /\ effect.confirm = "failed"
    /\ effect.events = <<"respond200", "confirm_subscription">>
    /\ effect.escaped = "SystemExit"

\* C12: once stopped is set it stays set; a call of shutdown() that finds
\* it set changes nothing (no release, no pub/sub call, no step of
\* unsubscribe); and no shutdown is begun again while it is set.
C12_ShutdownGuarded ==
    [][ /\ stopped => stopped'
        /\ (stopped /\ lastSignal' # lastSignal) =>
            ( /\ lastSignal' = "noop"
              /\ UNCHANGED <<manual_port_forward, mapped, subState, stopped,
                             clockVars, pingVars, threadStarts, confirmTransitions,
                             listenerVars, shPc, shTrace, topicSubs,
                             subscription_arn, unsubscribed, raised, exitStatus,
                             proc>> )
        /\ (stopped /\ shPc = "done") => shPc' = "done"
      ]_vars

\* A second signal arrived after the first shutdown() had removed the
\* subscription and ended.
C12_Witness ==
    /\ lastSignal = "noop"
    /\ shPc = "done"
    /\ stopped
    /\ Len(unsubscribed) = 1

\* C13 as stated: a confirmation callback whose confirm call succeeded never
\* takes the fatal path (sys.exit(1) and the end of the accept loop).
C13_Original ==
    (request # NoRequest /\ effect.confirm = "ok") =>
        (effect.exit = NONE /\ effect.escaped # "SystemExit" /\ mainPc # "returned")

\* C14 as stated: the supervisor restarts the process only when a ping was
\* sent before, so its first cycle never restarts.
C14_Original == proc = "restarted" => last_ping_sent # NONE

\* C15 as stated: a failing pub/sub call inside a cycle does not end the
\* supervisor loop; the thread leaves ping() only with StopFlag set.
C15_Original == pingPc = "died" => stopped

\* C16: the supervisor does not sleep before its first ping (an iteration
\* with no ping sent yet enters the cycle); a ping that follows another is
\* published more than PING_SECS after it; and an iteration that finds the
\* last ping at most PING_SECS old goes to sleep, which changes nothing and
\* leads back to the loop test.
C16_PingPeriod ==
    [][ /\ ( /\ pingPc = "test" /\ pingPc' # "test"
             /\ ~stopped
             /\ last_ping_sent = NONE )
           => pingPc' = "list"
        /\ pingPc' = "sleep" => last_ping_sent' # NONE
        /\ ( /\ pingPc = "publish" /\ pingPc' = "test"
             /\ last_ping_sent # NONE )
           => (last_ping_sent > PING_SECS /\ last_ping_sent' = 0)
        /\ ( /\ pingPc = "test" /\ pingPc' # "test"
             /\ ~stopped
             /\ last_ping_sent # NONE
             /\ last_ping_sent <= PING_SECS )
           => (pingPc' = "sleep" /\ UNCHANGED <<cyclePubs, pubsAfterStop, clockVars>>)
        /\ ( pingPc = "sleep" /\ pingPc' # "sleep" )
           => ( /\ pingPc' = "test"
                /\ UNCHANGED <<manual_port_forward, mapped, subState, stopped,
                               clockVars, cyclePubs, pubsAfterStop, threadStarts,
                               confirmTransitions, listenerVars, shutdownVars,
                               exitStatus, proc>> )
      ]_vars

\* A ping was sent before and the supervisor, more than PING_SECS later, is
\* about to publish the next one.
C16_Witness ==
    /\ pingPc = "publish"
    /\ ~stopped
    /\ last_ping_sent # NONE
    /\ last_ping_sent > PING_SECS

\* The malformed bodies of C17: not JSON, no Type, or a Notification whose
\* Message is not JSON.
Malformed(req) ==
    \/ req.Type \in {"<notjson>", ABSENT}
    \/ req.Type = "Notification" /\ req.Message.form = "notjson"

\* C17: a malformed body raises an Exception that stays in its request: no
\* exit, the process goes on, serve_forever goes back to its loop test and
\* from there waits for the next request.
C17_MalformedContained ==
    [][ /\ (HandlesRequest /\ Malformed(request'))
           => ( /\ effect'.escaped = "Exception"
                /\ effect'.exit = NONE
                /\ mainPc' = "looptest"
                /\ proc' = "running"
                /\ ~stopped'
                /\ exitStatus' = exitStatus )
        /\ (Malformed(request) /\ mainPc = "looptest" /\ mainPc' # mainPc)
           => mainPc' = "waiting"
      ]_vars

\* A Notification whose Message is not JSON was handled after the
\* subscription was confirmed, and the accept loop is at its loop test.
C17_Witness ==
    /\ request.Type = "Notification"
    /\ request.Message.form = "notjson"
    /\ effect.escaped = "Exception"
    /\ mainPc = "looptest"
    /\ subState = "Confirmed"

\* C18: unsubscribe() passes at most one identifier to the pub/sub
\* unsubscribe operation, that of a listed subscription of the bridge's topic
\* and callback URL, starting with 'arn:aws:sns:'; when the subscription found
\* has another identifier nothing is unsubscribed and unsubscribe() ends in
\* sys.exit(0), no error raised.
C18_UnsubscribeOnlyOwn ==
    /\ Len(unsubscribed) <= 1
    /\ \A i \in DOMAIN unsubscribed :
        /\ unsubscribed[i].head = "arn:aws:sns:"
        /\ \E j \in DOMAIN topicSubs :
            /\ topicSubs[j].TopicArn = topic_arn
            /\ topicSubs[j].Endpoint = endpoint_url
            /\ topicSubs[j].SubscriptionArn = unsubscribed[i]
    /\ (subscription_arn # NoArn /\ subscription_arn.head # "arn:aws:sns:") =>
        /\ unsubscribed = <<>>
        /\ subState # "Unsubscribed"
        /\ raised \in {"none", "SystemExit"}
        /\ shPc = "done" => (raised = "SystemExit" /\ exitStatus = 0)

\* unsubscribe() passed over a subscription of another endpoint and removed
\* the bridge's own, listed second.
C18_Witness ==
    /\ Len(topicSubs) = 2
    /\ topicSubs[1].Endpoint # endpoint_url
    /\ unsubscribed = <<SnsArn("mine")>>
    /\ shPc = "done"

\* The callbacks of C19: a Type other than SubscriptionConfirmation and
\* Notification, or a Notification with an empty Message.
Ignored(req) ==
    \/ req.Type = "UnsubscribeConfirmation"
    \/ req.Type = "Notification" /\ req.Message.form = "empty"

\* C19: handling an ignored callback does nothing after the response: no
\* confirm call, no dispatch, no skill invoked, nothing raised, and the
\* subscription state, last_ping_sent, last_ping_received, stopped and the
\* ping thread are as before.
C19_IgnoredChangesNothing ==
    [][ (HandlesRequest /\ Ignored(request'))
        => ( /\ effect'.confirm = "none"
             /\ effect'.start = "none"
             /\ ~effect'.dispatched
             /\ ~effect'.received
             /\ ~effect'.lookup
             /\ effect'.invoked = <<>>
             /\ effect'.escaped = "none"
             /\ effect'.exit = NONE
             /\ effect'.events = <<"respond200">>
             /\ UNCHANGED <<manual_port_forward, mapped, subState, stopped,
                            clockVars, pingVars, threadStarts, confirmTransitions,
                            shutdownVars, exitStatus, proc>> )
      ]_vars

\* A Notification with an empty Message was handled while the supervisor's
\* last ack was some time old.
C19_Witness ==
    /\ request.Type = "Notification"
    /\ request.Message.form = "empty"
    /\ effect.responded
    /\ last_ping_received # NONE
    /\ last_ping_received > 0

\* C20: with stopped set the ping thread begins no cycle and no sleep, its
\* loop test ends the loop, and at most one ping, that of the cycle under way
\* when stopped was set, is published afterwards.
C20_NoCycleAfterStop ==
    [][ /\ pubsAfterStop' <= 1
        /\ (stopped /\ pingPc = "test" /\ pingPc' # "test") => pingPc' = "finished"
        /\ (stopped /\ pingPc' # pingPc) => pingPc' \notin {"list", "sleep"}
        /\ (stopped /\ pingPc = "sleep" /\ pingPc' # "sleep") => pingPc' = "test"
        /\ pingPc = "finished" => pingPc' = "finished"
      ]_vars

\* The cycle under way when stopped was set published its ping, and the
\* thread then left its loop.
C20_Witness ==
    /\ pubsAfterStop = 1
    /\ pingPc = "finished"
    /\ stopped

====
